---- MODULE Spec2Model ----
(***************************************************************************)
(* Model of the rustic typed HTTP helper (execute.go): option application, *)
(* context/tracing setup, request construction, dispatch through the       *)
(* client directly or through a gobreaker circuit breaker, and response    *)
(* classification/decoding.  Calls are made one after another by one       *)
(* caller; the breaker, the client handle and the caller's header          *)
(* collection persist across calls.  The echo tracing middleware and the   *)
(* accesses concurrent calls make to one client handle are modelled too.   *)
(***************************************************************************)
EXTENDS Integers, Sequences, FiniteSets, TLC

VARIABLES pc, now, calls, handle, callerHeaders, breaker, call, streak,
          inbound, inflight

vars == <<pc, now, calls, handle, callerHeaders, breaker, call, streak,
          inbound, inflight>>

\* ---------------------------------------------------------------- bounds
MaxOpts == 3
MaxCalls == 4
MaxTime == 2

\* ------------------------------------------------------------ small maps
EmptyMap == <<>>

\* http.Header.Set: replaces the values of key k by the single value v
HeaderSet(m, k, v) == [x \in (DOMAIN m) \cup {k} |-> IF x = k THEN <<v>> ELSE m[x]]

\* req.Header.Set: the request carries one value per key
HeaderSetValue(m, k, v) == [x \in (DOMAIN m) \cup {k} |-> IF x = k THEN v ELSE m[x]]

\* ------------------------------------------------------------ url.Values
\* url.Values.Add: appends v to the values of key k
Add(m, k, v) ==
    [x \in (DOMAIN m) \cup {k} |->
        IF x = k THEN (IF k \in DOMAIN m THEN Append(m[k], v) ELSE <<v>>) ELSE m[x]]

\* the map a sequence of insertions <<key, value>> builds
RECURSIVE ValuesOf(_, _)
ValuesOf(ins, m) ==
    IF ins = <<>> THEN m
    ELSE ValuesOf(Tail(ins), Add(m, Head(ins)[1], Head(ins)[2]))

\* url.QueryEscape: a space becomes "+", unreserved characters stay
QueryEscape(s) == IF s = "John Doe" THEN "John+Doe" ELSE s

\* the byte order of the keys of the model (sort.Strings in Values.Encode)
KeyRank(k) == CASE k = "age" -> 1 [] k = "name" -> 2 [] OTHER -> 3

RECURSIVE SortedKeys(_)
SortedKeys(S) ==
    IF S = {} THEN <<>>
    ELSE LET k == CHOOSE x \in S : \A y \in S : KeyRank(x) <= KeyRank(y)
         IN  <<k>> \o SortedKeys(S \ {k})

\* the pairs key=value of one key, in the order of its values, joined by "&"
RECURSIVE EncodeKey(_, _, _)
EncodeKey(k, vs, out) ==
    IF vs = <<>> THEN out
    ELSE EncodeKey(k, Tail(vs),
                   (IF out = <<>> THEN <<>> ELSE out \o <<"&">>)
                       \o <<QueryEscape(k), "=", QueryEscape(Head(vs))>>)

RECURSIVE EncodePairs(_, _, _)
EncodePairs(m, keys, out) ==
    IF keys = <<>> THEN out
    ELSE EncodePairs(m, Tail(keys), EncodeKey(Head(keys), m[Head(keys)], out))

\* url.Values.Encode walking the keys in descending order
EncodeDescending(m) ==
    LET up == SortedKeys(DOMAIN m)
        down == [i \in 1..Len(up) |-> up[Len(up) + 1 - i]]
    IN  EncodePairs(m, down, <<>>)

\* url.Values.Encode: the URL-encoded form, sorted by key
Encode(m) == EncodePairs(m, SortedKeys(DOMAIN m), <<>>)

\* the parameter maps of the calls, by the insertions that build them
Insertions ==
    {<<>>,
     <<<<"name", "John Doe">>, <<"age", "30">>>>,
     <<<<"age", "30">>, <<"name", "John Doe">>>>,
     <<<<"name", "John">>, <<"name", "John Doe">>>>}

QueryValues == {ValuesOf(ins, EmptyMap) : ins \in Insertions}

FormValues ==
    {ValuesOf(<<<<"name", "John Doe">>, <<"age", "30">>>>, EmptyMap),
     ValuesOf(<<<<"name", "John">>>>, EmptyMap)}

\* map[string]string of plain multipart fields
MultipartParams ==
    {[k \in {"name"} |-> "John"],
     [k \in {"name", "age"} |-> IF k = "name" THEN "John" ELSE "30"]}

\* ------------------------------------------------------------- contexts
NilCtx == [isNil |-> TRUE, hasDeadline |-> FALSE, deadline |-> 0, span |-> FALSE]

Background == [isNil |-> FALSE, hasDeadline |-> FALSE, deadline |-> 0, span |-> FALSE]

DeadlineCtx(d) == [isNil |-> FALSE, hasDeadline |-> TRUE, deadline |-> d, span |-> FALSE]

ParentDeadlines == {2}

ParentCtxs == {NilCtx, Background} \cup {DeadlineCtx(d) : d \in ParentDeadlines}

Min(a, b) == IF a <= b THEN a ELSE b

\* context.WithTimeout(parent, t) at time n: the deadline is n + t unless the
\* parent already carries an earlier one
WithTimeout(parent, t, n) ==
    IF parent.hasDeadline
    THEN DeadlineCtx(Min(parent.deadline, n + t))
    ELSE DeadlineCtx(n + t)

\* --------------------------------------------------------------- errors
NoErr == [kind |-> "nil", StatusCode |-> 0, Status |-> "", Body |-> <<>>]

Err(k) == [kind |-> k, StatusCode |-> 0, Status |-> "", Body |-> <<>>]

ErrOpenState == Err("gobreaker.ErrOpenState")

ErrTooManyRequests == Err("gobreaker.ErrTooManyRequests")

DeadlineExceeded == Err("context deadline exceeded")

ConnRefused == Err("connection refused")

\* http.StatusText for the status codes of the model
StatusText(code) ==
    CASE code = 200 -> "OK"
      [] code = 300 -> "Multiple Choices"
      [] code = 503 -> "Service Unavailable"
      [] OTHER -> ""

HTTPError(code, status, body) ==
    [kind |-> "HTTPError", StatusCode |-> code, Status |-> status, Body |-> body]

\* ------------------------------------------------------- typed results
ZeroRes == [ID |-> 0, Name |-> ""]

ResVals == [ID : {0, 1}, Name : {"John"}]

NilRes == [isNil |-> TRUE, val |-> ZeroRes]

Ptr(v) == [isNil |-> FALSE, val |-> v]

\* ------------------------------------------------------ JSON (tokens)
Itoa(n) == CASE n = 0 -> "0" [] n = 1 -> "1" [] OTHER -> "?"

NumToks == {Itoa(n) : n \in {0, 1}}

Atoi(t) == CHOOSE n \in {0, 1} : Itoa(n) = t

Quote(s) == CASE s = "" -> "''" [] s = "John" -> "'John'" [] OTHER -> "'?'"

StrToks == {Quote(s) : s \in {"", "John"}} \cup {"'id'", "'name'", "'extra'"}

Unquote(t) == IF t = "''" THEN "" ELSE IF t = "'John'" THEN "John" ELSE t

\* json.Marshal of a TestResponse-like struct
Marshal(v) ==
    <<"{", "'id'", ":", Itoa(v.ID), ",", "'name'", ":", Quote(v.Name), "}">>

DecodeOk(v) == [ok |-> TRUE, val |-> v]

DecodeFail == [ok |-> FALSE, val |-> ZeroRes]

\* one member "key : value" of an object assigned to the struct; a key the
\* struct does not have is ignored, a value of the wrong JSON type is an error
AssignMember(acc, k, v) ==
    IF k = "'id'"
    THEN IF v \in NumToks THEN DecodeOk([acc EXCEPT !.ID = Atoi(v)]) ELSE DecodeFail
    ELSE IF k = "'name'"
    THEN IF v \in StrToks THEN DecodeOk([acc EXCEPT !.Name = Unquote(v)]) ELSE DecodeFail
    ELSE DecodeOk(acc)

RECURSIVE ParseMembers(_, _, _)
ParseMembers(b, i, acc) ==
    IF i + 3 > Len(b) THEN DecodeFail
    ELSE IF ~(b[i] \in StrToks /\ b[i + 1] = ":" /\ b[i + 2] \in NumToks \cup StrToks)
    THEN DecodeFail
    ELSE LET a == AssignMember(acc, b[i], b[i + 2]) IN
         IF ~a.ok THEN DecodeFail
         ELSE IF b[i + 3] = "}" THEN a
         ELSE IF b[i + 3] = "," THEN ParseMembers(b, i + 4, a.val)
         ELSE DecodeFail

\* json.NewDecoder(body).Decode(&result): decodes the first JSON value of the
\* stream into a zero-valued struct; what follows that value is not read
Decode(b) ==
    IF Len(b) = 0 THEN DecodeFail
    ELSE IF b[1] = "null" THEN DecodeOk(ZeroRes)
    ELSE IF b[1] # "{" THEN DecodeFail
    ELSE IF Len(b) >= 2 /\ b[2] = "}" THEN DecodeOk(ZeroRes)
    ELSE ParseMembers(b, 2, ZeroRes)

\* resp.Body is a stream: the bytes of the body and the read position
BodyStream(data) == [data |-> data, pos |-> 0]

\* io.ReadAll(resp.Body) followed by string(body): everything from the read
\* position to the end of the stream
ReadAll(s) == SubSeq(s.data, s.pos + 1, Len(s.data))

\* the bytes json.Decoder pulls from the stream (it reads the whole of a small
\* body into its buffer before it parses)
DecoderInput(s) == SubSeq(s.data, s.pos + 1, Len(s.data))

\* ------------------------------------------------ responses of the server
Statuses == {199, 200, 299, 300, 503}

Bodies ==
    {Marshal(v) : v \in ResVals}
    \cup {<<>>, <<"oops">>,
          <<"{", "'id'", ":", "'John'", "}">>,
          <<"{", "'extra'", ":", "1", ",", "'id'", ":", "1", "}", "trailing">>}

Responses == [StatusCode : Statuses, Body : {BodyStream(b) : b \in Bodies}]

NoResp == [StatusCode |-> 0, Body |-> BodyStream(<<>>)]

\* ------------------------------------------------------- configuration
\* HTTPConfig{}: every field at its zero value
ZeroConfig ==
    [HttpClient |-> "nil", Timeout |-> 0,
     Headers |-> [ref |-> "nil", map |-> EmptyMap],
     QueryParams |-> EmptyMap, FormParams |-> EmptyMap,
     MultipartFormParams |-> EmptyMap, CircuitBreaker |-> "nil"]

WithHttpClient == [opt |-> "WithHttpClient", arg |-> 0]

WithTimeoutOpt(t) == [opt |-> "WithTimeout", arg |-> t]

WithHeaders == [opt |-> "WithHeaders", arg |-> 0]

WithCircuitBreaker == [opt |-> "WithCircuitBreaker", arg |-> 0]

WithQueryParams(q) == [opt |-> "WithQueryParams", arg |-> q]

WithFormParams(f) == [opt |-> "WithFormParams", arg |-> f]

WithMultiPartFormParams(p) == [opt |-> "WithMultiPartFormParams", arg |-> p]

Timeouts == {1}

Options ==
    {WithHttpClient, WithHeaders, WithCircuitBreaker}
    \cup {WithTimeoutOpt(t) : t \in Timeouts}

\* the options of the calls that build requests
RequestOptions ==
    {WithHttpClient, WithHeaders, WithCircuitBreaker}
    \cup {WithQueryParams(q) : q \in QueryValues}
    \cup {WithFormParams(f) : f \in FormValues}
    \cup {WithMultiPartFormParams(p) : p \in MultipartParams}

\* an option keeping the value an earlier option gave its field
ApplyOptKeepsFirst(cfg, o, hdrs) ==
    CASE o.opt = "WithHttpClient" -> [cfg EXCEPT !.HttpClient = "handle"]
      [] o.opt = "WithTimeout" ->
            [cfg EXCEPT !.Timeout = IF @ = 0 THEN o.arg ELSE @]
      [] o.opt = "WithHeaders" -> [cfg EXCEPT !.Headers = [ref |-> "caller", map |-> hdrs]]
      [] o.opt = "WithCircuitBreaker" -> [cfg EXCEPT !.CircuitBreaker = "breaker"]
      [] o.opt = "WithQueryParams" ->
            [cfg EXCEPT !.QueryParams = IF @ = EmptyMap THEN o.arg ELSE @]
      [] o.opt = "WithFormParams" ->
            [cfg EXCEPT !.FormParams = IF @ = EmptyMap THEN o.arg ELSE @]
      [] o.opt = "WithMultiPartFormParams" ->
            [cfg EXCEPT !.MultipartFormParams = IF @ = EmptyMap THEN o.arg ELSE @]
      [] OTHER -> cfg

\* one option closure applied to the configuration; WithHeaders stores the
\* caller's collection itself (a reference), not a copy of it
ApplyOpt(cfg, o, hdrs) ==
    CASE o.opt = "WithHttpClient" -> [cfg EXCEPT !.HttpClient = "handle"]
      [] o.opt = "WithTimeout" -> [cfg EXCEPT !.Timeout = o.arg]
      [] o.opt = "WithHeaders" -> [cfg EXCEPT !.Headers = [ref |-> "caller", map |-> hdrs]]
      [] o.opt = "WithCircuitBreaker" -> [cfg EXCEPT !.CircuitBreaker = "breaker"]
      [] o.opt = "WithQueryParams" -> [cfg EXCEPT !.QueryParams = o.arg]
      [] o.opt = "WithFormParams" -> [cfg EXCEPT !.FormParams = o.arg]
      [] o.opt = "WithMultiPartFormParams" -> [cfg EXCEPT !.MultipartFormParams = o.arg]
      [] OTHER -> cfg

\* for _, opt := range opts { opt(config) }
RECURSIVE ApplyOpts(_, _, _)
ApplyOpts(cfg, opts, hdrs) ==
    IF opts = <<>> THEN cfg
    ELSE ApplyOpts(ApplyOpt(cfg, Head(opts), hdrs), Tail(opts), hdrs)

OptLists == UNION {[1..n -> Options] : n \in 0..MaxOpts}

\* config := &HTTPConfig{} with the options of the call applied in order
Configure(opts, hdrs) == ApplyOpts(ZeroConfig, opts, hdrs)

\* the entry point setting the Content-Type only when the caller set none
ForceContentTypeIfAbsent(cfg, ct) ==
    [cfg EXCEPT !.Headers =
        [ref |-> IF @.ref = "nil" THEN "own" ELSE @.ref,
         map |-> IF "Content-Type" \in DOMAIN @.map THEN @.map
                 ELSE HeaderSet(@.map, "Content-Type", ct)]]

\* if config.Headers == nil { config.Headers = http.Header{} } followed by
\* config.Headers.Set("Content-Type", ct)
ForceContentType(cfg, ct) ==
    [cfg EXCEPT !.Headers =
        [ref |-> IF @.ref = "nil" THEN "own" ELSE @.ref,
         map |-> HeaderSet(@.map, "Content-Type", ct)]]

\* POSTMultiPartFormData: if config.Headers != nil { config.Headers = make(http.Header) }
MultipartHeaders(cfg) ==
    IF cfg.Headers.ref # "nil"
    THEN [cfg EXCEPT !.Headers = [ref |-> "own", map |-> EmptyMap]]
    ELSE cfg

\* what the caller's own header collection holds after the entry point wrote
\* through config.Headers
CallerView(cfg, hdrs) == IF cfg.Headers.ref = "caller" THEN cfg.Headers.map ELSE hdrs

\* ------------------------------------------------------ context set-up
\* setupContext deriving a deadline even when no timeout is configured
setupContextAlwaysTimeout(ctx, cfg, h, n) ==
    LET base == IF ctx.isNil THEN Background ELSE ctx
        timed == WithTimeout(base, cfg.Timeout, n)
    IN  IF cfg.HttpClient = "nil"
        THEN [panic |-> TRUE, ctx |-> timed, cleanup |-> <<>>]
        ELSE IF h.TraceEnabled
        THEN [panic |-> FALSE, ctx |-> [timed EXCEPT !.span = TRUE],
              cleanup |-> <<"span.End", "cancel">>]
        ELSE [panic |-> FALSE, ctx |-> timed, cleanup |-> <<"cancel">>]

\* setupContext handing a nil context on as it is
setupContextKeepsNil(ctx, cfg, h, n) ==
    LET timed == IF cfg.Timeout # 0 THEN WithTimeout(ctx, cfg.Timeout, n) ELSE ctx
        cancel == IF cfg.Timeout # 0 THEN "cancel" ELSE "noop"
    IN  IF cfg.HttpClient = "nil"
        THEN [panic |-> TRUE, ctx |-> timed, cleanup |-> <<>>]
        ELSE IF h.TraceEnabled
        THEN [panic |-> FALSE, ctx |-> [timed EXCEPT !.span = TRUE],
              cleanup |-> <<"span.End", cancel>>]
        ELSE [panic |-> FALSE, ctx |-> timed, cleanup |-> <<cancel>>]

\* setupContext whose cleanup cancels before it ends the span
setupContextCancelFirst(ctx, cfg, h, n) ==
    LET base == IF ctx.isNil THEN Background ELSE ctx
        timed == IF cfg.Timeout # 0 THEN WithTimeout(base, cfg.Timeout, n) ELSE base
        cancel == IF cfg.Timeout # 0 THEN "cancel" ELSE "noop"
    IN  IF cfg.HttpClient = "nil"
        THEN [panic |-> TRUE, ctx |-> timed, cleanup |-> <<>>]
        ELSE IF h.TraceEnabled
        THEN [panic |-> FALSE, ctx |-> [timed EXCEPT !.span = TRUE],
              cleanup |-> <<cancel, "span.End">>]
        ELSE [panic |-> FALSE, ctx |-> timed, cleanup |-> <<cancel>>]

\* what the cleanup closure acts on: the span of the call and the Done state
\* of its context
NoResources == [spanEnded |-> FALSE, endTime |-> 0, cancelled |-> FALSE]

\* span.End(): the first call ends the span, later calls are ignored
SpanEnd(r, n) == IF r.spanEnded THEN r ELSE [r EXCEPT !.spanEnded = TRUE, !.endTime = n]

\* the CancelFunc of context.WithTimeout: calls after the first do nothing
Cancel(r) == IF r.cancelled THEN r ELSE [r EXCEPT !.cancelled = TRUE]

\* the cleanup closure invoked at time n
RECURSIVE RunCleanup(_, _, _)
RunCleanup(r, steps, n) ==
    IF steps = <<>> THEN r
    ELSE RunCleanup(CASE Head(steps) = "span.End" -> SpanEnd(r, n)
                      [] Head(steps) = "cancel" -> Cancel(r)
                      [] OTHER -> r,
                    Tail(steps), n)

\* setupContext at time n: panics on a nil client handle (line 90), else the
\* derived context and the steps of the cleanup closure
setupContext(ctx, cfg, h, n) ==
    LET base == IF ctx.isNil THEN Background ELSE ctx
        timed == IF cfg.Timeout # 0 THEN WithTimeout(base, cfg.Timeout, n) ELSE base
        cancel == IF cfg.Timeout # 0 THEN "cancel" ELSE "noop"
    IN  IF cfg.HttpClient = "nil"
        THEN [panic |-> TRUE, ctx |-> timed, cleanup |-> <<>>]
        ELSE IF h.TraceEnabled
        THEN [panic |-> FALSE, ctx |-> [timed EXCEPT !.span = TRUE],
              cleanup |-> <<"span.End", cancel>>]
        ELSE [panic |-> FALSE, ctx |-> timed, cleanup |-> <<cancel>>]

\* ------------------------------------------------- request construction
\* a URL string is its part before the query, then "?" and the pieces of the
\* query string when it has one
URLs == {<<"http://svc/resource">>, <<":bad">>}

\* the URLs of the calls that build requests: with a query string of their own
\* and with a bare "?" as well
RequestURLs ==
    URLs \cup {<<"http://svc/resource", "?", "x", "=", "1">>,
               <<"http://svc/resource", "?">>}

\* netUrl.Parse fails on a URL without a scheme
ParseFails(url) == url[1] = ":bad"

\* netUrl.Parse of a URL it accepts: the text after the first "?" is RawQuery,
\* a trailing lone "?" sets ForceQuery
Parse(url) ==
    IF Len(url) >= 2 /\ url[2] = "?"
    THEN [base |-> url[1], RawQuery |-> SubSeq(url, 3, Len(url)), ForceQuery |-> Len(url) = 2]
    ELSE [base |-> url[1], RawQuery |-> <<>>, ForceQuery |-> FALSE]

\* (*url.URL).String
String(u) ==
    IF u.ForceQuery \/ u.RawQuery # <<>>
    THEN <<u.base, "?">> \o u.RawQuery
    ELSE <<u.base>>

\* GET, lines 183-187: the URL string handed to createRequest
QueryURL(url, cfg) ==
    LET parsedURL == Parse(url) IN
    IF DOMAIN cfg.QueryParams # {}
    THEN String([parsedURL EXCEPT !.RawQuery = Encode(cfg.QueryParams)])
    ELSE String(parsedURL)

NoBody == [kind |-> "none", data |-> <<>>, boundary |-> "", closed |-> FALSE]

NoReq == [Method |-> "", URL |-> <<>>, Header |-> EmptyMap, ctx |-> NilCtx, Body |-> NoBody]

\* createRequest building the request without the context (http.NewRequest)
createRequestNoContext(ctx, method, url, body) ==
    IF ParseFails(url)
    THEN [err |-> Err("failed to create request"), req |-> NoReq]
    ELSE [err |-> NoErr,
          req |-> [Method |-> method, URL |-> url, Header |-> EmptyMap,
                   ctx |-> Background, Body |-> body]]

\* createRequest: http.NewRequestWithContext, which parses the URL again
createRequest(ctx, method, url, body) ==
    IF ParseFails(url)
    THEN [err |-> Err("failed to create request"), req |-> NoReq]
    ELSE [err |-> NoErr,
          req |-> [Method |-> method, URL |-> url, Header |-> EmptyMap,
                   ctx |-> ctx, Body |-> body]]

\* applyHeaders sending the last value of a key instead of the first
applyHeadersLastValue(req, headers) ==
    [req EXCEPT !.Header =
        [k \in (DOMAIN @) \cup
               {x \in DOMAIN headers : Len(headers[x]) > 0 /\ Len(headers[x][1]) > 0}
           |-> IF k \in DOMAIN headers /\ Len(headers[k]) > 0 /\ Len(headers[k][1]) > 0
               THEN headers[k][Len(headers[k])] ELSE @[k]]]

\* applyHeaders: the first value of every key that has a non-empty first value
applyHeaders(req, headers) ==
    [req EXCEPT !.Header =
        [k \in (DOMAIN @) \cup
               {x \in DOMAIN headers : Len(headers[x]) > 0 /\ Len(headers[x][1]) > 0}
           |-> IF k \in DOMAIN headers /\ Len(headers[k]) > 0 /\ Len(headers[k][1]) > 0
               THEN headers[k][1] ELSE @[k]]]

\* ---------------------------------------------------- response handling
\* handleResponse with the success range closed at 300
handleResponseUpTo300(resp, e) ==
    IF e.kind # "nil"
    THEN [result |-> NilRes, err |-> e, log |-> <<>>]
    ELSE IF resp.StatusCode >= 200 /\ resp.StatusCode <= 300
    THEN LET d == Decode(DecoderInput(resp.Body)) IN
         IF ~d.ok
         THEN [result |-> NilRes, err |-> Err("failed to decode response"),
               log |-> <<"Decode", "Body.Close">>]
         ELSE [result |-> Ptr(d.val), err |-> NoErr, log |-> <<"Decode", "Body.Close">>]
    ELSE [result |-> NilRes,
          err |-> HTTPError(resp.StatusCode, StatusText(resp.StatusCode), ReadAll(resp.Body)),
          log |-> <<"ReadAll", "Body.Close">>]

\* handleResponse returning the half-decoded value together with the decode error
handleResponseKeepsResult(resp, e) ==
    IF e.kind # "nil"
    THEN [result |-> NilRes, err |-> e, log |-> <<>>]
    ELSE IF resp.StatusCode >= 200 /\ resp.StatusCode < 300
    THEN LET d == Decode(DecoderInput(resp.Body)) IN
         IF ~d.ok
         THEN [result |-> Ptr(d.val), err |-> Err("failed to decode response"),
               log |-> <<"Decode", "Body.Close">>]
         ELSE [result |-> Ptr(d.val), err |-> NoErr, log |-> <<"Decode", "Body.Close">>]
    ELSE [result |-> NilRes,
          err |-> HTTPError(resp.StatusCode, StatusText(resp.StatusCode), ReadAll(resp.Body)),
          log |-> <<"ReadAll", "Body.Close">>]

\* handleResponse returning the zero value without decoding the body into it
handleResponseSkipsDecode(resp, e) ==
    IF e.kind # "nil"
    THEN [result |-> NilRes, err |-> e, log |-> <<>>]
    ELSE IF resp.StatusCode >= 200 /\ resp.StatusCode < 300
    THEN LET d == Decode(DecoderInput(resp.Body)) IN
         IF ~d.ok
         THEN [result |-> NilRes, err |-> Err("failed to decode response"),
               log |-> <<"Decode", "Body.Close">>]
         ELSE [result |-> Ptr(ZeroRes), err |-> NoErr, log |-> <<"Decode", "Body.Close">>]
    ELSE [result |-> NilRes,
          err |-> HTTPError(resp.StatusCode, StatusText(resp.StatusCode), ReadAll(resp.Body)),
          log |-> <<"ReadAll", "Body.Close">>]

\* handleResponse ignoring the outcome of Decode
handleResponseIgnoresDecodeError(resp, e) ==
    IF e.kind # "nil"
    THEN [result |-> NilRes, err |-> e, log |-> <<>>]
    ELSE IF resp.StatusCode >= 200 /\ resp.StatusCode < 300
    THEN LET d == Decode(DecoderInput(resp.Body)) IN
         [result |-> Ptr(d.val), err |-> NoErr, log |-> <<"Decode", "Body.Close">>]
    ELSE [result |-> NilRes,
          err |-> HTTPError(resp.StatusCode, StatusText(resp.StatusCode), ReadAll(resp.Body)),
          log |-> <<"ReadAll", "Body.Close">>]

\* handleResponse leaving the body of a non-2xx response open
handleResponseLeaksBody(resp, e) ==
    IF e.kind # "nil"
    THEN [result |-> NilRes, err |-> e, log |-> <<>>]
    ELSE IF resp.StatusCode >= 200 /\ resp.StatusCode < 300
    THEN LET d == Decode(DecoderInput(resp.Body)) IN
         IF ~d.ok
         THEN [result |-> NilRes, err |-> Err("failed to decode response"),
               log |-> <<"Decode", "Body.Close">>]
         ELSE [result |-> Ptr(d.val), err |-> NoErr, log |-> <<"Decode", "Body.Close">>]
    ELSE [result |-> NilRes,
          err |-> HTTPError(resp.StatusCode, StatusText(resp.StatusCode), ReadAll(resp.Body)),
          log |-> <<"ReadAll">>]

\* handleResponse(resp, err): the pair returned and the calls made on the body
handleResponse(resp, e) ==
    IF e.kind # "nil"
    THEN [result |-> NilRes, err |-> e, log |-> <<>>]
    ELSE IF resp.StatusCode >= 200 /\ resp.StatusCode < 300
    THEN LET d == Decode(DecoderInput(resp.Body)) IN
         IF ~d.ok
         THEN [result |-> NilRes, err |-> Err("failed to decode response"),
               log |-> <<"Decode", "Body.Close">>]
         ELSE [result |-> Ptr(d.val), err |-> NoErr, log |-> <<"Decode", "Body.Close">>]
    ELSE [result |-> NilRes,
          err |-> HTTPError(resp.StatusCode, StatusText(resp.StatusCode), ReadAll(resp.Body)),
          log |-> <<"ReadAll", "Body.Close">>]

\* --------------------------------------- circuit breaker (sony/gobreaker v2)
\* Settings as in TestCircuitBreaker: ReadyToTrip is ConsecutiveFailures > 2,
\* MaxRequests 0 (one trial request when half-open), default IsSuccessful
\* (err == nil).  Counts are not cleared while closed (Interval 0).
ZeroCounts == [Requests |-> 0, ConsecutiveSuccesses |-> 0, ConsecutiveFailures |-> 0]

NewCircuitBreaker == [state |-> "closed", counts |-> ZeroCounts, expired |-> FALSE]

ReadyToTrip(counts) == counts.ConsecutiveFailures > 2

IsSuccessful(e) == e.kind = "nil"

setState(cb, s) == [state |-> s, counts |-> ZeroCounts, expired |-> FALSE]

\* currentState: an open breaker whose timeout has elapsed becomes half-open
currentState(cb) ==
    IF cb.state = "open" /\ cb.expired THEN setState(cb, "half-open") ELSE cb

beforeRequest(cb) ==
    LET c == currentState(cb) IN
    IF c.state = "open" THEN [cb |-> c, err |-> ErrOpenState]
    ELSE IF c.state = "half-open" /\ c.counts.Requests >= 1
    THEN [cb |-> c, err |-> ErrTooManyRequests]
    ELSE [cb |-> [c EXCEPT !.counts.Requests = @ + 1], err |-> NoErr]

onSuccess(cb) ==
    LET c == [cb EXCEPT !.counts.ConsecutiveSuccesses = @ + 1,
                        !.counts.ConsecutiveFailures = 0] IN
    IF c.state = "half-open" /\ c.counts.ConsecutiveSuccesses >= 1
    THEN setState(c, "closed") ELSE c

onFailure(cb) ==
    LET c == [cb EXCEPT !.counts.ConsecutiveFailures = @ + 1,
                        !.counts.ConsecutiveSuccesses = 0] IN
    IF cb.state = "closed"
    THEN IF ReadyToTrip(c.counts) THEN setState(c, "open") ELSE c
    ELSE setState(cb, "open")

afterRequest(cb, success) ==
    LET c == currentState(cb) IN IF success THEN onSuccess(c) ELSE onFailure(c)

\* a wrapped function that hands the response back without classifying it
BreakerAttemptUnclassified(resp, e) ==
    IF e.kind # "nil"
    THEN [result |-> NilRes, err |-> e, log |-> <<>>]
    ELSE [result |-> Ptr(ZeroRes), err |-> NoErr, log |-> <<"Body.Close">>]

\* the function executeRequest hands to breaker.Execute (lines 137-143)
BreakerAttempt(resp, e) ==
    IF e.kind # "nil"
    THEN [result |-> NilRes, err |-> e, log |-> <<>>]
    ELSE handleResponse(resp, NoErr)

\* executeRequest wrapping only client.Do in the breaker and classifying the
\* response outside it: the breaker sees transport errors alone
executeRequestResultTransportOnly(cfg, cb, resp, e) ==
    IF cfg.CircuitBreaker # "nil"
    THEN LET r == handleResponse(resp, e) IN
         [result |-> r.result, err |-> r.err, log |-> r.log,
          cb |-> afterRequest(cb, IsSuccessful(e))]
    ELSE LET r == handleResponse(resp, e) IN
         [result |-> r.result, err |-> r.err, log |-> r.log, cb |-> cb]

\* executeRequest once client.Do has returned (resp, e): the pair returned to
\* the entry point, the breaker afterwards, and the calls made on the body
executeRequestResult(cfg, cb, resp, e) ==
    IF cfg.CircuitBreaker # "nil"
    THEN LET r == BreakerAttempt(resp, e) IN
         [result |-> IF r.err.kind # "nil" THEN NilRes ELSE r.result,
          err |-> r.err, log |-> r.log,
          cb |-> afterRequest(cb, IsSuccessful(r.err))]
    ELSE LET r == handleResponse(resp, e) IN
         [result |-> r.result, err |-> r.err, log |-> r.log, cb |-> cb]

\* ------------------------------------------------------ state of a call
IdleCall ==
    [entry |-> "", parent |-> NilCtx, url |-> <<>>, files |-> <<>>, opts |-> <<>>,
     applied |-> 0, config |-> ZeroConfig, start |-> 0,
     ctx |-> NilCtx, cleanup |-> <<>>, req |-> NoReq, resp |-> NoResp,
     responded |-> FALSE, doErr |-> NoErr, res |-> NoResources,
     cbSeen |-> "none", cbErr |-> NoErr,
     result |-> NilRes, err |-> NoErr, log |-> <<>>]

\* the handles NewHTTPClient returns
Handles == [Client : {"http.Client"}, TraceEnabled : BOOLEAN, ServiceName : {"svc"}]

\* a span context: the identifiers a span carries in the traceparent header
NoSpanContext == [TraceID |-> "0", SpanID |-> "0", Sampled |-> FALSE]

\* no inbound request is in the middleware
NoInbound ==
    [at |-> "none", version |-> "", initialised |-> FALSE, Method |-> "",
     Header |-> EmptyMap, inboundHeader |-> EmptyMap, remote |-> NoSpanContext,
     span |-> NoSpanContext, recording |-> FALSE, attrs |-> EmptyMap, ends |-> 0,
     ctxSpan |-> NoSpanContext, seenHeader |-> EmptyMap, seenCtxSpan |-> NoSpanContext,
     handlerErr |-> "", errors |-> <<>>, returned |-> "", log |-> <<>>]

\* the calls in flight on one handle
Procs == {"c1", "c2", "c3"}

NoInflight == [at |-> [p \in Procs |-> "none"], accesses |-> <<>>]

InitialHeaders ==
    [k \in {"Authorization", "X-Empty", "X-Blank"} |->
        CASE k = "Authorization" -> <<"Bearer t", "other">>
          [] k = "X-Empty" -> <<>>
          [] OTHER -> <<"">>]

Init ==
    /\ pc = "idle"
    /\ now = 0
    /\ calls = 0
    /\ handle \in Handles
    /\ inbound = NoInbound
    /\ inflight = NoInflight
    /\ callerHeaders = InitialHeaders
    /\ breaker \in {NewCircuitBreaker, setState(NewCircuitBreaker, "open")}
    /\ call = IdleCall
    /\ streak = 0

\* the configuration and the set-up context of a call entered at time now
Entered(entry, ctx, url, cfg) ==
    LET s == setupContext(ctx, cfg, handle, now) IN
    [IdleCall EXCEPT !.entry = entry, !.parent = ctx, !.url = url, !.config = cfg,
                     !.start = now,
                     !.ctx = s.ctx, !.cleanup = s.cleanup, !.log = <<"setupContext">>]

\* the nil client handle is dereferenced in setupContext: the call panics
\* before its deferred cleanup is registered
Panic(c) ==
    /\ pc' = "panicked"
    /\ call' = [c EXCEPT !.cleanup = <<>>, !.log = <<"panic">>]
    /\ UNCHANGED <<breaker, streak>>

\* log.Fatal: os.Exit(1), deferred functions do not run
Fatal(c) ==
    /\ pc' = "exited"
    /\ call' = [c EXCEPT !.log = @ \o <<"log.Fatal">>]
    /\ UNCHANGED <<breaker, streak>>

\* return (res, e) from an entry point: the deferred cleanup runs
Return(c, res, e) ==
    /\ pc' = "done"
    /\ call' = [c EXCEPT !.result = res, !.err = e, !.log = @ \o c.cleanup,
                         !.res = RunCleanup(@, c.cleanup, now)]

\* executeRequest wrapping the breaker's rejection in an error of its own
executeRequestWrapsRejection(c, request) ==
    IF c.config.CircuitBreaker # "nil"
    THEN LET b == beforeRequest(breaker)
             seen == [c EXCEPT !.req = request, !.cbSeen = b.cb.state, !.cbErr = b.err] IN
         /\ breaker' = b.cb
         /\ UNCHANGED streak
         /\ IF b.err.kind # "nil"
            THEN Return(seen, NilRes, Err("request rejected"))
            ELSE /\ pc' = "wait"
                 /\ call' = [seen EXCEPT !.log = @ \o <<"client.Do">>]
    ELSE /\ pc' = "wait"
         /\ call' = [c EXCEPT !.req = request, !.log = @ \o <<"client.Do">>]
         /\ UNCHANGED <<breaker, streak>>

\* executeRequest up to the point where client.Do blocks, or its return when
\* the breaker rejects the attempt
executeRequest(c, request) ==
    IF c.config.CircuitBreaker # "nil"
    THEN LET b == beforeRequest(breaker)
             seen == [c EXCEPT !.req = request, !.cbSeen = b.cb.state, !.cbErr = b.err] IN
         /\ breaker' = b.cb
         /\ UNCHANGED streak
         /\ IF b.err.kind # "nil"
            THEN Return(seen, NilRes, b.err)
            ELSE /\ pc' = "wait"
                 /\ call' = [seen EXCEPT !.log = @ \o <<"client.Do">>]
    ELSE /\ pc' = "wait"
         /\ call' = [c EXCEPT !.req = request, !.log = @ \o <<"client.Do">>]
         /\ UNCHANGED <<breaker, streak>>

\* ------------------------------------------------------- entry points
\* Every entry point starts by building its configuration from its options
\* (config below is that configuration, Configure(opts, callerHeaders)).
\* GET (lines 164-194)
GET(ctx, url, config) ==
    /\ pc = "idle"
    /\ LET cfg == ForceContentType(config,
                                   "application/json")
           s == setupContext(ctx, cfg, handle, now)
           c == Entered("GET", ctx, url, cfg)
       IN  /\ callerHeaders' = CallerView(cfg, callerHeaders)
           /\ IF s.panic THEN Panic(c)
              ELSE IF ParseFails(url) THEN Fatal(c)
              ELSE LET r == createRequest(c.ctx, "GET", QueryURL(url, cfg), NoBody) IN
                   IF r.err.kind # "nil"
                   THEN Return(c, NilRes, r.err) /\ UNCHANGED <<breaker, streak>>
                   ELSE executeRequest(c, applyHeaders(r.req, cfg.Headers.map))
    /\ UNCHANGED <<now, calls, handle, inbound, inflight>>

\* POST and PUT (lines 197-252) differ in the method only
SendJSON(method, ctx, url, marshals, config) ==
    /\ pc = "idle"
    /\ LET cfg == ForceContentType(config,
                                   "application/json")
           s == setupContext(ctx, cfg, handle, now)
           c == Entered(method, ctx, url, cfg)
       IN  /\ callerHeaders' = CallerView(cfg, callerHeaders)
           /\ IF s.panic THEN Panic(c)
              ELSE IF ~marshals
              THEN /\ Return(c, NilRes, Err("failed to marshal request body"))
                   /\ UNCHANGED <<breaker, streak>>
              ELSE LET r == createRequest(c.ctx, method, url,
                                          [kind |-> "json", data |-> <<>>, boundary |-> "",
                                           closed |-> FALSE]) IN
                   IF r.err.kind # "nil"
                   THEN Return(c, NilRes, r.err) /\ UNCHANGED <<breaker, streak>>
                   ELSE executeRequest(c, applyHeaders(r.req, cfg.Headers.map))
    /\ UNCHANGED <<now, calls, handle, inbound, inflight>>

POST(ctx, url, marshals, config) == SendJSON("POST", ctx, url, marshals, config)

PUT(ctx, url, marshals, config) == SendJSON("PUT", ctx, url, marshals, config)

\* POSTFormData (lines 255-276)
POSTFormData(ctx, url, config) ==
    /\ pc = "idle"
    /\ LET cfg == ForceContentType(config,
                                   "application/x-www-form-urlencoded")
           s == setupContext(ctx, cfg, handle, now)
           c == Entered("POSTFormData", ctx, url, cfg)
       IN  /\ callerHeaders' = CallerView(cfg, callerHeaders)
           /\ IF s.panic THEN Panic(c)
              ELSE LET r == createRequest(c.ctx, "POST", url,
                                          [kind |-> "form", data |-> Encode(cfg.FormParams),
                                           boundary |-> "", closed |-> FALSE]) IN
                   IF r.err.kind # "nil"
                   THEN Return(c, NilRes, r.err) /\ UNCHANGED <<breaker, streak>>
                   ELSE executeRequest(c, applyHeaders(r.req, cfg.Headers.map))
    /\ UNCHANGED <<now, calls, handle, inbound, inflight>>

\* the files of a multipart call, in the order the map is ranged over
FileLists ==
    {<<>>,
     <<[field |-> "file", path |-> "a.txt", exists |-> TRUE, content |-> "test content"]>>,
     <<[field |-> "file", path |-> "gone.txt", exists |-> FALSE, content |-> ""]>>,
     <<[field |-> "file", path |-> "a.txt", exists |-> TRUE, content |-> "test content"],
       [field |-> "doc", path |-> "b.txt", exists |-> TRUE, content |-> ""]>>,
     <<[field |-> "file", path |-> "a.txt", exists |-> TRUE, content |-> "test content"],
       [field |-> "doc", path |-> "gone.txt", exists |-> FALSE, content |-> ""]>>}

\* the boundary multipart.NewWriter draws at random
Boundaries == {"b1", "b2"}

\* a content type that does not carry the writer's boundary
FormDataContentTypeFixed(boundary) == "multipart/form-data"

\* writer.FormDataContentType()
FormDataContentType(boundary) ==
    IF boundary = "b1" THEN "multipart/form-data; boundary=b1"
    ELSE "multipart/form-data; boundary=b2"

\* the loop over the files leaving out a file that cannot be opened
RECURSIVE AddFilesSkipsMissing(_, _, _)
AddFilesSkipsMissing(files, parts, ops) ==
    IF files = <<>> THEN [err |-> NoErr, parts |-> parts, log |-> ops]
    ELSE LET f == Head(files) IN
         IF ~f.exists
         THEN AddFilesSkipsMissing(Tail(files), parts, ops \o <<"os.Open">>)
         ELSE AddFilesSkipsMissing(Tail(files),
                       Append(parts, [kind |-> "file", name |-> f.field,
                                      filename |-> f.path, content |-> f.content]),
                       ops \o <<"os.Open", "CreateFormFile", "io.Copy", "file.Close">>)

\* the loop over the files (lines 296-313): the parts written and the file
\* operations made, up to the first file that cannot be opened
RECURSIVE AddFiles(_, _, _)
AddFiles(files, parts, ops) ==
    IF files = <<>> THEN [err |-> NoErr, parts |-> parts, log |-> ops]
    ELSE LET f == Head(files) IN
         IF ~f.exists
         THEN [err |-> Err("failed to open file"), parts |-> parts,
               log |-> ops \o <<"os.Open">>]
         ELSE AddFiles(Tail(files),
                       Append(parts, [kind |-> "file", name |-> f.field,
                                      filename |-> f.path, content |-> f.content]),
                       ops \o <<"os.Open", "CreateFormFile", "io.Copy", "file.Close">>)

\* the loop over the fields writing every field twice
RECURSIVE WriteFieldsTwice(_, _, _, _)
WriteFieldsTwice(params, keys, parts, ops) ==
    IF keys = <<>> THEN [parts |-> parts, log |-> ops]
    ELSE LET p == [kind |-> "field", name |-> Head(keys), filename |-> "",
                   content |-> params[Head(keys)]]
         IN  WriteFieldsTwice(params, Tail(keys), parts \o <<p, p>>,
                              ops \o <<"WriteField", "WriteField">>)

\* the loop over config.MultipartFormParams (lines 316-320); keys lists the
\* keys in the order the map is ranged over
RECURSIVE WriteFields(_, _, _, _)
WriteFields(params, keys, parts, ops) ==
    IF keys = <<>> THEN [parts |-> parts, log |-> ops]
    ELSE WriteFields(params, Tail(keys),
                     Append(parts, [kind |-> "field", name |-> Head(keys), filename |-> "",
                                    content |-> params[Head(keys)]]),
                     Append(ops, "WriteField"))

\* POSTMultiPartFormData (lines 279-334); boundary is the boundary the
\* writer drew
POSTMultiPartFormData(ctx, url, files, boundary, config) ==
    /\ pc = "idle"
    /\ LET cfg == MultipartHeaders(config)
           s == setupContext(ctx, cfg, handle, now)
           c == [Entered("POSTMultiPartFormData", ctx, url, cfg) EXCEPT !.files = files]
           w == AddFiles(files, <<>>, <<>>)
           cw == [c EXCEPT !.log = @ \o w.log]
       IN  /\ IF s.panic THEN Panic(c)
              ELSE IF w.err.kind # "nil"
              THEN Return(cw, NilRes, w.err) /\ UNCHANGED <<breaker, streak>>
              ELSE LET f == WriteFields(cfg.MultipartFormParams,
                                        SortedKeys(DOMAIN cfg.MultipartFormParams),
                                        w.parts, <<>>)
                       cc == [cw EXCEPT !.log = @ \o f.log \o <<"writer.Close">>]
                       r == createRequest(c.ctx, "POST", url,
                                          [kind |-> "multipart", data |-> f.parts,
                                           boundary |-> boundary, closed |-> TRUE])
                   IN  IF r.err.kind # "nil"
                       THEN Return(cc, NilRes, r.err) /\ UNCHANGED <<breaker, streak>>
                       ELSE executeRequest(cc,
                              applyHeaders([r.req EXCEPT !.Header =
                                               HeaderSetValue(@, "Content-Type",
                                                              FormDataContentType(boundary))],
                                           cfg.Headers.map))
    /\ UNCHANGED <<now, calls, handle, inbound, inflight, callerHeaders>>

\* ------------------------------------------------- client.Do returns
\* the deadline of the request's context has not passed
BeforeDeadline == ~call.req.ctx.hasDeadline \/ now < call.req.ctx.deadline

\* a breaker-path call that ended in a non-2xx response or a transport error
CountedFailure(e) ==
    e.kind \in {"HTTPError", ConnRefused.kind, DeadlineExceeded.kind}

\* the number of times the request went out through client.Do
Dispatches(log) == Cardinality({i \in 1..Len(log) : log[i] = "client.Do"})

\* executeRequest dispatching the request a second time after a failed attempt
CompleteRetriesOnce(resp, e) ==
    LET x == executeRequestResult(call.config, breaker, resp, e) IN
    /\ breaker' = x.cb
    /\ IF x.err.kind # "nil" /\ Dispatches(call.log) = 1
       THEN /\ pc' = "wait"
            /\ call' = [call EXCEPT !.log = @ \o x.log \o <<"client.Do">>]
       ELSE Return([call EXCEPT !.resp = resp, !.responded = (e.kind = "nil"), !.doErr = e,
                                !.log = @ \o x.log],
                   x.result, x.err)
    /\ streak' = IF call.config.CircuitBreaker = "nil" THEN streak
                 ELSE IF ~CountedFailure(x.err) THEN 0
                 ELSE IF streak < 3 THEN streak + 1 ELSE streak
    /\ UNCHANGED <<now, calls, handle, inbound, inflight, callerHeaders>>

\* executeRequest resumes with what client.Do returned and the entry point
\* returns
Complete(resp, e) ==
    LET x == executeRequestResult(call.config, breaker, resp, e) IN
    /\ breaker' = x.cb
    /\ Return([call EXCEPT !.resp = resp, !.responded = (e.kind = "nil"), !.doErr = e,
                           !.log = @ \o x.log],
              x.result, x.err)
    /\ streak' = IF call.config.CircuitBreaker = "nil" THEN streak
                 ELSE IF ~CountedFailure(x.err) THEN 0
                 ELSE IF streak < 3 THEN streak + 1 ELSE streak
    /\ UNCHANGED <<now, calls, handle, inbound, inflight, callerHeaders>>

ClientDoResponds(resp) ==
    /\ pc = "wait"
    /\ BeforeDeadline
    /\ Complete(resp, NoErr)

ClientDoFails ==
    /\ pc = "wait"
    /\ BeforeDeadline
    /\ Complete(NoResp, ConnRefused)

ClientDoTimesOut ==
    /\ pc = "wait"
    /\ ~BeforeDeadline
    /\ Complete(NoResp, DeadlineExceeded)

\* ------------------------------------------------------- environment
\* the caller takes the returned pair; the next call may start
NextCall ==
    /\ pc = "done"
    /\ calls < MaxCalls
    /\ pc' = "idle"
    /\ calls' = calls + 1
    /\ call' = IdleCall
    /\ UNCHANGED <<now, handle, inbound, inflight, callerHeaders, breaker, streak>>

Tick ==
    /\ pc \in {"idle", "wait"}
    /\ now < MaxTime
    /\ now' = now + 1
    /\ UNCHANGED <<pc, calls, handle, inbound, inflight, callerHeaders, breaker, call, streak>>

\* the breaker's open-state Timeout elapses
BreakerTimeoutElapses ==
    /\ pc \in {"idle", "wait"}
    /\ breaker.state = "open"
    /\ ~breaker.expired
    /\ breaker' = [breaker EXCEPT !.expired = TRUE]
    /\ UNCHANGED <<pc, now, calls, handle, inbound, inflight, callerHeaders, call, streak>>

\* the configurations the option lists of a call can build
Configured == {Configure(opts, callerHeaders) : opts \in OptLists}

\* a call starts: the caller picks the context, the URL, the options and, where
\* the entry point takes them, the payload and the files
CallGET ==
    /\ pc = "idle"
    /\ \E cfg \in Configured : \E ctx \in ParentCtxs, url \in URLs : GET(ctx, url, cfg)

CallPOST ==
    /\ pc = "idle"
    /\ \E cfg \in Configured : \E ctx \in ParentCtxs, url \in URLs, m \in BOOLEAN :
          POST(ctx, url, m, cfg)

CallPUT ==
    /\ pc = "idle"
    /\ \E cfg \in Configured : \E ctx \in ParentCtxs, url \in URLs, m \in BOOLEAN :
          PUT(ctx, url, m, cfg)

CallPOSTFormData ==
    /\ pc = "idle"
    /\ \E cfg \in Configured : \E ctx \in ParentCtxs, url \in URLs :
          POSTFormData(ctx, url, cfg)

CallPOSTMultiPartFormData ==
    /\ pc = "idle"
    /\ \E cfg \in Configured :
          \E ctx \in ParentCtxs, url \in URLs, files \in FileLists, b \in Boundaries :
              POSTMultiPartFormData(ctx, url, files, b, cfg)

\* one call, with every entry point, option list and outcome
Next ==
    \/ CallGET
    \/ CallPOST
    \/ CallPUT
    \/ CallPOSTFormData
    \/ CallPOSTMultiPartFormData
    \/ \E resp \in Responses : ClientDoResponds(resp)
    \/ ClientDoFails
    \/ ClientDoTimesOut
    \/ Tick
    \/ BreakerTimeoutElapses

Spec == Init /\ [][Next]_vars

\* a run of calls that share one breaker and one header collection
InitCalls ==
    /\ Init
    /\ breaker = NewCircuitBreaker

CallConfigured ==
    {Configure(opts, callerHeaders) :
        opts \in {o \in OptLists : Len(o) >= 1 /\ o[1] = WithHttpClient}}

CallResponses ==
    {r \in Responses : /\ r.StatusCode \in {200, 300}
                       /\ r.Body.data \in {Marshal([ID |-> 1, Name |-> "John"]), <<"oops">>}}

NextCalls ==
    \/ /\ pc = "idle"
       /\ \E cfg \in CallConfigured : GET(Background, <<"http://svc/resource">>, cfg)
    \/ /\ pc = "idle"
       /\ \E cfg \in CallConfigured : POSTFormData(Background, <<"http://svc/resource">>, cfg)
    \/ \E resp \in CallResponses : ClientDoResponds(resp)
    \/ ClientDoFails
    \/ NextCall
    \/ BreakerTimeoutElapses

SpecCalls == InitCalls /\ [][NextCalls]_vars

\* one call of every entry point with the options that shape the request
CallerHeaderSets ==
    {InitialHeaders,
     [k \in {"Authorization", "Content-Type"} |->
        IF k = "Authorization" THEN <<"Bearer t">> ELSE <<"text/plain", "text/html">>]}

InitRequests ==
    /\ pc = "idle"
    /\ now = 0
    /\ calls = 0
    /\ handle \in Handles
    /\ inbound = NoInbound
    /\ inflight = NoInflight
    /\ callerHeaders \in CallerHeaderSets
    /\ breaker = NewCircuitBreaker
    /\ call = IdleCall
    /\ streak = 0

RequestOptLists == UNION {[1..n -> RequestOptions] : n \in 0..MaxOpts}

RequestConfigured == {Configure(opts, callerHeaders) : opts \in RequestOptLists}

RequestResponses ==
    {r \in Responses : /\ r.StatusCode \in {200, 503}
                       /\ r.Body.data = Marshal([ID |-> 1, Name |-> "John"])}

NextRequests ==
    \/ /\ pc = "idle"
       /\ \E cfg \in RequestConfigured : \E url \in RequestURLs : GET(Background, url, cfg)
    \/ /\ pc = "idle"
       /\ \E cfg \in RequestConfigured : \E url \in RequestURLs :
             POST(Background, url, TRUE, cfg)
    \/ /\ pc = "idle"
       /\ \E cfg \in RequestConfigured : \E url \in RequestURLs :
             PUT(Background, url, TRUE, cfg)
    \/ /\ pc = "idle"
       /\ \E cfg \in RequestConfigured : \E url \in RequestURLs :
             POSTFormData(Background, url, cfg)
    \/ /\ pc = "idle"
       /\ \E cfg \in RequestConfigured :
             \E url \in RequestURLs, files \in FileLists, b \in Boundaries :
                 POSTMultiPartFormData(Background, url, files, b, cfg)
    \/ \E resp \in RequestResponses : ClientDoResponds(resp)
    \/ ClientDoFails

SpecRequests == InitRequests /\ [][NextRequests]_vars

\* the loop applying the options of a call, one option a step
AllOptions == Options \cup RequestOptions

AllOptLists == UNION {[1..n -> AllOptions] : n \in 0..MaxOpts}

InitOptions ==
    /\ pc = "options"
    /\ now = 0
    /\ calls = 0
    /\ handle = [Client |-> "http.Client", TraceEnabled |-> FALSE, ServiceName |-> "svc"]
    /\ inbound = NoInbound
    /\ inflight = NoInflight
    /\ callerHeaders = InitialHeaders
    /\ breaker = NewCircuitBreaker
    /\ call \in {[IdleCall EXCEPT !.opts = o] : o \in AllOptLists}
    /\ streak = 0

\* opt(config) for the next option of the list
ApplyNextOption ==
    /\ pc = "options"
    /\ call.applied < Len(call.opts)
    /\ call' = [call EXCEPT !.applied = @ + 1,
                            !.config = ApplyOpt(@, call.opts[call.applied + 1],
                                                callerHeaders)]
    /\ UNCHANGED <<pc, now, calls, handle, inbound, inflight, callerHeaders, breaker, streak>>

NextOptions == ApplyNextOption

SpecOptions == InitOptions /\ [][NextOptions]_vars

\* ---------------------------------------------- echo tracing middleware
\* one inbound request through Echov3TracerMiddleware / Echov4TracerMiddleware
\* (the two bodies are the same), one statement a step
TraceIDs == {"t1", "t2"}

SpanIDs == {"s1", "s2", "s3"}

\* the value of a traceparent header: version, trace id, parent id, flags
FormatTraceparent(sc) ==
    <<"00", sc.TraceID, sc.SpanID, IF sc.Sampled THEN "01" ELSE "00">>

ParseTraceparent(v) ==
    IF /\ Len(v) = 4
       /\ v[1] = "00"
       /\ v[2] \in TraceIDs
       /\ v[3] \in SpanIDs
       /\ v[4] \in {"00", "01"}
    THEN [ok |-> TRUE, sc |-> [TraceID |-> v[2], SpanID |-> v[3], Sampled |-> v[4] = "01"]]
    ELSE [ok |-> FALSE, sc |-> NoSpanContext]

IsValid(sc) == sc.TraceID # "0" /\ sc.SpanID # "0"

\* the headers inbound requests arrive with: no trace context, a sampled and
\* an unsampled one, a truncated one and one with an all-zero trace id
InboundHeaders ==
    {EmptyMap}
    \cup {[k \in {"Traceparent"} |-> <<v>>] :
             v \in {<<"00", "t1", "s1", "01">>, <<"00", "t1", "s1", "00">>,
                    <<"00", "t1">>, <<"00", "0", "s1", "01">>}}

\* what the downstream handler returns: nil ("") or an error with a message
HandlerErrs == {"", "boom", "not found"}

InboundRequests ==
    {[NoInbound EXCEPT !.at = "Extract", !.version = v, !.initialised = i,
                       !.Method = m, !.Header = h, !.inboundHeader = h] :
        v \in {"v3", "v4"}, i \in BOOLEAN, m \in {"GET", "POST"}, h \in InboundHeaders}

\* propagator.Extract: propagation.TraceContext once InitTracer has installed
\* it, the no-op propagator before
PropagatorExtract ==
    /\ inbound.at = "Extract"
    /\ LET p == IF "Traceparent" \in DOMAIN inbound.Header
                THEN ParseTraceparent(inbound.Header["Traceparent"][1])
                ELSE [ok |-> FALSE, sc |-> NoSpanContext]
       IN  inbound' = [inbound EXCEPT
                          !.at = "Start",
                          !.remote = IF inbound.initialised /\ p.ok THEN p.sc
                                     ELSE NoSpanContext,
                          !.log = Append(@, "Extract")]
    /\ UNCHANGED <<pc, now, calls, handle, callerHeaders, breaker, call, streak, inflight>>

\* a tracer that starts every span in a trace of its own
TracerStartNewTrace(initialised, remote, traceID, spanID) ==
    IF ~initialised THEN [sc |-> remote, recording |-> FALSE]
    ELSE [sc |-> [TraceID |-> traceID, SpanID |-> spanID, Sampled |-> TRUE],
          recording |-> TRUE]

\* tr.Start: the SDK tracer continues the remote parent's trace under a new
\* span id and with the parent's sampling decision, or starts a sampled trace;
\* the no-op tracer hands back the span context it found
TracerStart(initialised, remote, traceID, spanID) ==
    IF ~initialised THEN [sc |-> remote, recording |-> FALSE]
    ELSE IF IsValid(remote)
    THEN [sc |-> [TraceID |-> remote.TraceID, SpanID |-> spanID,
                  Sampled |-> remote.Sampled],
          recording |-> remote.Sampled]
    ELSE [sc |-> [TraceID |-> traceID, SpanID |-> spanID, Sampled |-> TRUE],
          recording |-> TRUE]

Start ==
    /\ inbound.at = "Start"
    /\ \E spanID \in SpanIDs \ {"s1"} :
          LET st == TracerStart(inbound.initialised, inbound.remote, "t2", spanID) IN
          inbound' = [inbound EXCEPT !.at = "SetAttributes", !.span = st.sc,
                                     !.recording = st.recording,
                                     !.log = Append(@, "Start")]
    /\ UNCHANGED <<pc, now, calls, handle, callerHeaders, breaker, call, streak, inflight>>

\* span.SetAttributes: kept by a recording span only
SpanSetAttribute(in, k, v) ==
    IF in.recording
    THEN [x \in (DOMAIN in.attrs) \cup {k} |-> IF x = k THEN v ELSE in.attrs[x]]
    ELSE in.attrs

SetAttributes ==
    /\ inbound.at = "SetAttributes"
    /\ inbound' = [inbound EXCEPT
                      !.at = "Inject",
                      !.attrs = SpanSetAttribute(inbound, "http.method", inbound.Method),
                      !.log = Append(@, "SetAttributes")]
    /\ UNCHANGED <<pc, now, calls, handle, callerHeaders, breaker, call, streak, inflight>>

\* propagator.Inject into the headers of the request
PropagatorInject ==
    /\ inbound.at = "Inject"
    /\ inbound' = [inbound EXCEPT
                      !.at = "SetRequest",
                      !.Header = IF inbound.initialised /\ IsValid(inbound.span)
                                 THEN HeaderSet(@, "Traceparent",
                                                FormatTraceparent(inbound.span))
                                 ELSE @,
                      !.log = Append(@, "Inject")]
    /\ UNCHANGED <<pc, now, calls, handle, callerHeaders, breaker, call, streak, inflight>>

\* the middleware leaving the request with the context it came with
SetRequestKeepsContext ==
    /\ inbound.at = "SetRequest"
    /\ inbound' = [inbound EXCEPT !.at = "next", !.log = Append(@, "SetRequest")]
    /\ UNCHANGED <<pc, now, calls, handle, callerHeaders, breaker, call, streak, inflight>>

\* c.SetRequest(c.Request().WithContext(ctx))
SetRequest ==
    /\ inbound.at = "SetRequest"
    /\ inbound' = [inbound EXCEPT !.at = "next", !.ctxSpan = inbound.span,
                                  !.log = Append(@, "SetRequest")]
    /\ UNCHANGED <<pc, now, calls, handle, callerHeaders, breaker, call, streak, inflight>>

\* next(c): the downstream handler sees the request and returns
InvokeNext ==
    /\ inbound.at = "next"
    /\ \E e \in HandlerErrs :
          inbound' = [inbound EXCEPT
                         !.at = IF e # "" THEN "errorAttribute" ELSE "return",
                         !.seenHeader = inbound.Header,
                         !.seenCtxSpan = inbound.ctxSpan,
                         !.handlerErr = e,
                         !.log = Append(@, "next")]
    /\ UNCHANGED <<pc, now, calls, handle, callerHeaders, breaker, call, streak, inflight>>

\* lines 40-41: the error attribute is given the request's method
SetErrorAttribute ==
    /\ inbound.at = "errorAttribute"
    /\ inbound' = [inbound EXCEPT
                      !.at = "c.Error",
                      !.attrs = SpanSetAttribute(inbound, "error.error", inbound.Method),
                      !.log = Append(@, "SetAttributes")]
    /\ UNCHANGED <<pc, now, calls, handle, callerHeaders, breaker, call, streak, inflight>>

\* c.Error(err): the error goes to the framework's HTTPErrorHandler
ContextError ==
    /\ inbound.at = "c.Error"
    /\ inbound' = [inbound EXCEPT !.at = "return",
                                  !.errors = Append(@, inbound.handlerErr),
                                  !.log = Append(@, "c.Error")]
    /\ UNCHANGED <<pc, now, calls, handle, callerHeaders, breaker, call, streak, inflight>>

\* return nil (line 45) with the deferred span.End()
MiddlewareReturns ==
    /\ inbound.at = "return"
    /\ inbound' = [inbound EXCEPT !.at = "done", !.ends = @ + 1, !.returned = "",
                                  !.log = Append(@, "span.End")]
    /\ UNCHANGED <<pc, now, calls, handle, callerHeaders, breaker, call, streak, inflight>>

InitMiddleware ==
    /\ pc = "idle"
    /\ now = 0
    /\ calls = 0
    /\ handle = [Client |-> "http.Client", TraceEnabled |-> TRUE, ServiceName |-> "svc"]
    /\ callerHeaders = InitialHeaders
    /\ breaker = NewCircuitBreaker
    /\ call = IdleCall
    /\ streak = 0
    /\ inbound \in InboundRequests
    /\ inflight = NoInflight

NextMiddleware ==
    \/ PropagatorExtract
    \/ Start
    \/ SetAttributes
    \/ PropagatorInject
    \/ SetRequest
    \/ InvokeNext
    \/ SetErrorAttribute
    \/ ContextError
    \/ MiddlewareReturns

SpecMiddleware == InitMiddleware /\ [][NextMiddleware]_vars

\* ------------------------------------------- calls sharing one handle
\* each of Procs is one call in flight on the handle NewHTTPClient returned;
\* a step is one access of the call to a field of the handle
Access(p, field, kind) == [proc |-> p, field |-> field, kind |-> kind]

\* setupContext, line 90: if config.HttpClient.TraceEnabled
ReadTraceEnabled(p) ==
    /\ inflight.at[p] = "setupContext"
    /\ inflight' = [at |-> [inflight.at EXCEPT ![p] = IF handle.TraceEnabled
                                                      THEN "GetTracer" ELSE "Do"],
                    accesses |-> Append(inflight.accesses,
                                        Access(p, "TraceEnabled", "read"))]
    /\ UNCHANGED <<pc, now, calls, handle, callerHeaders, breaker, call, streak, inbound>>

\* setupContext, line 91: rusticTracer.GetTracer(config.HttpClient.ServiceName)
ReadServiceName(p) ==
    /\ inflight.at[p] = "GetTracer"
    /\ inflight' = [at |-> [inflight.at EXCEPT ![p] = "Do"],
                    accesses |-> Append(inflight.accesses,
                                        Access(p, "ServiceName", "read"))]
    /\ UNCHANGED <<pc, now, calls, handle, callerHeaders, breaker, call, streak, inbound>>

\* a Do that stores a client in the handle before it dispatches
HandleDoStoresClient(p) ==
    /\ inflight.at[p] = "Do"
    /\ handle' = [handle EXCEPT !.Client = "http.Client"]
    /\ inflight' = [at |-> [inflight.at EXCEPT ![p] = "done"],
                    accesses |-> Append(inflight.accesses, Access(p, "Client", "write"))]
    /\ UNCHANGED <<pc, now, calls, callerHeaders, breaker, call, streak, inbound>>

\* HTTPClient.Do: c.Client.Do(request)
HandleDo(p) ==
    /\ inflight.at[p] = "Do"
    /\ inflight' = [at |-> [inflight.at EXCEPT ![p] = "done"],
                    accesses |-> Append(inflight.accesses, Access(p, "Client", "read"))]
    /\ UNCHANGED <<pc, now, calls, handle, callerHeaders, breaker, call, streak, inbound>>

InitHandle ==
    /\ pc = "idle"
    /\ now = 0
    /\ calls = 0
    /\ handle \in Handles
    /\ callerHeaders = InitialHeaders
    /\ breaker = NewCircuitBreaker
    /\ call = IdleCall
    /\ streak = 0
    /\ inbound = NoInbound
    /\ inflight = [at |-> [p \in Procs |-> "setupContext"], accesses |-> <<>>]

NextHandle ==
    \E p \in Procs :
        \/ ReadTraceEnabled(p)
        \/ ReadServiceName(p)
        \/ HandleDo(p)

SpecHandle == InitHandle /\ [][NextHandle]_vars

\* ------------------------------------------------------------ claims
\* the request of the current call went out through client.Do
Dispatched == \E i \in 1..Len(call.log) : call.log[i] = "client.Do"

\* the cleanup closure of setupContext has run
CleanupRan == \E i \in 1..Len(call.log) : call.log[i] \in {"cancel", "noop"}

Success(code) == code >= 200 /\ code < 300

\* C1: a call that returns, on the direct path and on the breaker path, returns
\* either a non-nil result with a nil error or a nil result with a non-nil
\* error, never both and never neither
ResultXorError == pc = "done" => (call.result.isNil <=> call.err.kind # "nil")

ResultXorErrorWitness ==
    /\ pc = "done"
    /\ call.config.CircuitBreaker # "nil"
    /\ ~call.result.isNil
    /\ call.err.kind = "nil"

DecodedIsMarshalled ==
    \A v \in ResVals :
        (/\ pc = "done"
         /\ call.responded
         /\ Success(call.resp.StatusCode)
         /\ call.resp.Body.data = Marshal(v)) =>
            /\ call.err.kind = "nil"
            /\ ~call.result.isNil
            /\ call.result.val = v

DecodedIsMarshalledWitness ==
    /\ pc = "done"
    /\ call.responded
    /\ call.resp.StatusCode = 299
    /\ call.resp.Body.data = Marshal([ID |-> 1, Name |-> "John"])
    /\ call.result = Ptr([ID |-> 1, Name |-> "John"])

\* C4: a 2xx response whose body does not decode yields a nil result and a
\* decoding error, which is neither nil nor an HTTPError
UndecodableIsDecodeError ==
    (/\ pc = "done"
     /\ call.responded
     /\ Success(call.resp.StatusCode)
     /\ ~Decode(call.resp.Body.data).ok) =>
        /\ call.result.isNil
        /\ call.err.kind = "failed to decode response"

UndecodableIsDecodeErrorWitness ==
    /\ pc = "done"
    /\ call.responded
    /\ call.resp.StatusCode = 200
    /\ call.resp.Body.data = <<"oops">>
    /\ call.err.kind = "failed to decode response"

RejectionPropagatesUnchanged ==
    (pc = "done" /\ call.cbErr.kind # "nil") =>
        /\ call.result.isNil
        /\ call.err = call.cbErr
        /\ ~Dispatched

RejectionPropagatesUnchangedWitness ==
    /\ pc = "done"
    /\ call.cbErr = ErrOpenState
    /\ call.err = ErrOpenState

\* the deadline a timeout t set at time n gives a context derived from parent
EarliestDeadline(parent, n, t) ==
    IF ~parent.isNil /\ parent.hasDeadline /\ parent.deadline < n + t
    THEN parent.deadline ELSE n + t

\* C7 as stated: with a non-zero timeout T the request's context carries the
\* deadline start + T, and a dispatched call the server has not answered by
\* then returns a nil result and the deadline-exceeded error
DeadlineIsStartPlusTimeout ==
    (pc \in {"wait", "done"} /\ Dispatched /\ call.config.Timeout # 0) =>
        /\ call.req.ctx.hasDeadline
        /\ call.req.ctx.deadline = call.start + call.config.Timeout
        /\ (pc = "done" /\ ~call.responded
               /\ now >= call.start + call.config.Timeout) =>
              (call.result.isNil /\ call.err = DeadlineExceeded)

\* C7 amended: the deadline is start + T or the caller's own deadline,
\* whichever is earlier, and a dispatched call the server has not answered by
\* that deadline returns a nil result and the deadline-exceeded error
DeadlineIsEarliest ==
    (pc \in {"wait", "done"} /\ Dispatched /\ call.config.Timeout # 0) =>
        /\ call.req.ctx.hasDeadline
        /\ call.req.ctx.deadline =
              EarliestDeadline(call.parent, call.start, call.config.Timeout)
        /\ (pc = "done" /\ ~call.responded
               /\ now >= EarliestDeadline(call.parent, call.start, call.config.Timeout)) =>
              (call.result.isNil /\ call.err = DeadlineExceeded)

DeadlineIsEarliestWitness ==
    /\ pc = "done"
    /\ call.config.Timeout # 0
    /\ call.start > 0
    /\ ~call.parent.hasDeadline
    /\ now = call.start + call.config.Timeout
    /\ call.err = DeadlineExceeded

\* C8: without a timeout the context set up for the request, and the context
\* of the request built from it, carry the caller's deadline (none if the
\* caller's context has none or is nil)
NoTimeoutKeepsParentDeadline ==
    (pc \in {"wait", "done", "exited"} /\ call.config.Timeout = 0) =>
        /\ call.ctx.hasDeadline = call.parent.hasDeadline
        /\ call.ctx.hasDeadline => call.ctx.deadline = call.parent.deadline
        /\ Dispatched => /\ call.req.ctx.hasDeadline = call.parent.hasDeadline
                         /\ call.req.ctx.deadline = call.ctx.deadline

NoTimeoutKeepsParentDeadlineWitness ==
    /\ pc = "wait"
    /\ call.config.Timeout = 0
    /\ call.parent.hasDeadline
    /\ call.req.ctx.hasDeadline
    /\ call.req.ctx.deadline = call.parent.deadline

\* C9: once setupContext has returned its cleanup closure, the cleanup has run
\* when control leaves the call, on every exit path
CleanupOnEveryExit == pc \in {"done", "exited"} => CleanupRan

\* C10: a call without a client handle returns a nil result and a non-nil
\* error, without dereferencing the handle and without dispatching
MissingClientFailsFast ==
    (pc # "idle" /\ call.config.HttpClient = "nil") =>
        /\ pc = "done"
        /\ call.result.isNil
        /\ call.err.kind # "nil"
        /\ ~Dispatched

\* C11: a call whose URL cannot be parsed returns a nil result and an error
\* before any dispatch, from every entry point, and the process goes on
ConstructionFailureReturnsError ==
    (pc # "idle" /\ call.config.HttpClient # "nil" /\ ParseFails(call.url)) =>
        /\ pc = "done"
        /\ call.result.isNil
        /\ call.err.kind # "nil"
        /\ ~Dispatched

\* C12: a call dispatches its request through the client at most once, and a
\* call that returned an error dispatched it once or, on a rejection or a
\* construction failure, not at all
AtMostOneDispatch ==
    /\ Dispatches(call.log) <= 1
    /\ (pc = "done" /\ call.cbErr.kind # "nil") => Dispatches(call.log) = 0

AtMostOneDispatchWitness ==
    /\ pc = "done"
    /\ call.config.CircuitBreaker # "nil"
    /\ call.responded
    /\ call.err.kind = "HTTPError"
    /\ Dispatches(call.log) = 1

\* the field an option sets and the value it gives that field
FieldOf(o) ==
    CASE o.opt = "WithHttpClient" -> "HttpClient"
      [] o.opt = "WithTimeout" -> "Timeout"
      [] o.opt = "WithHeaders" -> "Headers"
      [] o.opt = "WithCircuitBreaker" -> "CircuitBreaker"
      [] o.opt = "WithQueryParams" -> "QueryParams"
      [] o.opt = "WithFormParams" -> "FormParams"
      [] OTHER -> "MultipartFormParams"

ValueOf(o, hdrs) ==
    CASE o.opt = "WithHttpClient" -> "handle"
      [] o.opt = "WithHeaders" -> [ref |-> "caller", map |-> hdrs]
      [] o.opt = "WithCircuitBreaker" -> "breaker"
      [] OTHER -> o.arg

\* the position of the last option of the list that sets field f, 0 if none
LastSetting(opts, f) ==
    LET S == {i \in 1..Len(opts) : FieldOf(opts[i]) = f} IN
    IF S = {} THEN 0 ELSE CHOOSE i \in S : \A j \in S : j <= i

\* C13: once the options are applied every field holds the value of the last
\* option that sets it, or its zero value when no option does; the entry
\* points build the same configuration; options on different fields commute
LastOptionWins ==
    /\ (pc = "options" /\ call.applied = Len(call.opts)) =>
          /\ \A f \in DOMAIN ZeroConfig :
                LET i == LastSetting(call.opts, f) IN
                IF i = 0 THEN call.config[f] = ZeroConfig[f]
                ELSE call.config[f] = ValueOf(call.opts[i], callerHeaders)
          /\ call.config = Configure(call.opts, callerHeaders)
    /\ pc = "options" =>
          \A o1, o2 \in AllOptions :
              FieldOf(o1) # FieldOf(o2) =>
                  ApplyOpt(ApplyOpt(call.config, o1, callerHeaders), o2, callerHeaders)
                      = ApplyOpt(ApplyOpt(call.config, o2, callerHeaders), o1, callerHeaders)

LastOptionWinsWitness ==
    /\ pc = "options"
    /\ Len(call.opts) = 3
    /\ call.applied = 3
    /\ call.opts[1].opt = "WithQueryParams"
    /\ call.opts[2].opt = "WithHttpClient"
    /\ call.opts[3].opt = "WithQueryParams"
    /\ call.opts[1].arg # call.opts[3].arg
    /\ call.config.QueryParams = call.opts[3].arg
    /\ call.config.Timeout = 0

\* the entry points whose headers come from the configured collection
HeaderEntries == {"GET", "POST", "PUT", "POSTFormData"}

\* C14 as stated: every key of the configured collection with at least one
\* value is on the request with its first value, a key with no value is not
FirstValueOfEveryKey ==
    (Dispatched /\ call.entry \in HeaderEntries) =>
        \A k \in DOMAIN call.config.Headers.map :
            LET values == call.config.Headers.map[k] IN
            IF Len(values) > 0
            THEN k \in DOMAIN call.req.Header /\ call.req.Header[k] = values[1]
            ELSE k \notin DOMAIN call.req.Header

\* C14 amended: every key whose first value is not empty is on the request
\* with exactly that first value; a key with no value or with an empty first
\* value is not set, and the request carries no other key
FirstNonEmptyValueOfEveryKey ==
    (Dispatched /\ call.entry \in HeaderEntries) =>
        /\ \A k \in DOMAIN call.config.Headers.map :
              LET values == call.config.Headers.map[k] IN
              IF Len(values) > 0 /\ values[1] # ""
              THEN k \in DOMAIN call.req.Header /\ call.req.Header[k] = values[1]
              ELSE k \notin DOMAIN call.req.Header
        /\ DOMAIN call.req.Header \subseteq DOMAIN call.config.Headers.map

FirstNonEmptyValueOfEveryKeyWitness ==
    /\ pc = "wait"
    /\ call.entry = "POST"
    /\ call.config.Headers.ref = "caller"
    /\ call.config.Headers.map["Authorization"] = <<"Bearer t", "other">>
    /\ call.req.Header["Authorization"] = "Bearer t"
    /\ "X-Blank" \in DOMAIN call.config.Headers.map
    /\ "X-Blank" \notin DOMAIN call.req.Header
    /\ "X-Empty" \notin DOMAIN call.req.Header

\* C15: a multipart call made with WithHeaders (its configuration then holds
\* a header collection) carries every caller header with a non-empty first
\* value, the Content-Type apart
MultipartCarriesCallerHeaders ==
    (/\ Dispatched
     /\ call.entry = "POSTMultiPartFormData"
     /\ call.config.Headers.ref # "nil") =>
        \A k \in (DOMAIN callerHeaders) \ {"Content-Type"} :
            (Len(callerHeaders[k]) > 0 /\ callerHeaders[k][1] # "") =>
                /\ k \in DOMAIN call.req.Header
                /\ call.req.Header[k] = callerHeaders[k][1]

\* q is the URL-encoded form of the parameter map m: pairs key=value joined
\* by "&", ordered by key, one pair per value, a key's values in their order
IsEncodingOf(q, m) ==
    LET cnt == IF Len(q) = 0 THEN 0 ELSE (Len(q) + 1) \div 4
        KeyAt(j) == q[4 * j - 3]
        ValAt(j) == q[4 * j - 1]
    IN  /\ Len(q) = IF cnt = 0 THEN 0 ELSE 4 * cnt - 1
        /\ \A j \in 1..cnt : q[4 * j - 2] = "=" /\ (j < cnt => q[4 * j] = "&")
        /\ \A i, j \in 1..cnt : i < j => KeyRank(KeyAt(i)) <= KeyRank(KeyAt(j))
        /\ \A j \in 1..cnt : \E k \in DOMAIN m : KeyAt(j) = QueryEscape(k)
        /\ \A k \in DOMAIN m :
              LET J == {j \in 1..cnt : KeyAt(j) = QueryEscape(k)} IN
              /\ Cardinality(J) = Len(m[k])
              /\ \A i \in 1..Len(m[k]) :
                    \E j \in J : /\ Cardinality({x \in J : x < j}) = i - 1
                                 /\ ValAt(j) = QueryEscape(m[k][i])

\* C16: whatever Content-Type the caller's headers hold, a dispatched GET,
\* POST or PUT carries application/json, and a dispatched POSTFormData carries
\* application/x-www-form-urlencoded with the encoded form parameters as body
ContentTypeForced ==
    Dispatched =>
        /\ call.entry \in {"GET", "POST", "PUT"} =>
              /\ "Content-Type" \in DOMAIN call.req.Header
              /\ call.req.Header["Content-Type"] = "application/json"
        /\ call.entry = "POSTFormData" =>
              /\ "Content-Type" \in DOMAIN call.req.Header
              /\ call.req.Header["Content-Type"] = "application/x-www-form-urlencoded"
              /\ call.req.Body.kind = "form"
              /\ IsEncodingOf(call.req.Body.data, call.config.FormParams)

ContentTypeForcedWitness ==
    /\ pc = "wait"
    /\ call.entry = "POSTFormData"
    /\ call.config.Headers.ref = "caller"
    /\ callerHeaders["Authorization"] = <<"Bearer t">>
    /\ call.req.Header["Content-Type"] = "application/x-www-form-urlencoded"
    /\ call.req.Body.data = <<"age", "=", "30", "&", "name", "=", "John+Doe">>

\* the steps of a multipart call that write into the multipart writer
WriterSteps == {"os.Open", "CreateFormFile", "io.Copy", "file.Close", "WriteField"}

\* C17: a dispatched multipart call closed its writer after every part and
\* field was written and before the request went out, built the request from
\* the closed body, and sends the content type that carries that body's boundary
WriterClosedBeforeDispatch ==
    (Dispatched /\ call.entry = "POSTMultiPartFormData") =>
        /\ \E i \in 1..Len(call.log) :
              /\ call.log[i] = "writer.Close"
              /\ \A j \in 1..Len(call.log) :
                    /\ call.log[j] \in WriterSteps => j < i
                    /\ call.log[j] = "client.Do" => i < j
        /\ call.req.Body.closed
        /\ call.req.Body.boundary \in Boundaries
        /\ "Content-Type" \in DOMAIN call.req.Header
        /\ call.req.Body.boundary = "b1" <=>
              call.req.Header["Content-Type"] = "multipart/form-data; boundary=b1"
        /\ call.req.Body.boundary = "b2" <=>
              call.req.Header["Content-Type"] = "multipart/form-data; boundary=b2"

WriterClosedBeforeDispatchWitness ==
    /\ pc = "wait"
    /\ call.entry = "POSTMultiPartFormData"
    /\ Len(call.files) = 2
    /\ DOMAIN call.config.MultipartFormParams = {"name", "age"}
    /\ call.req.Body.boundary = "b2"
    /\ call.req.Header["Content-Type"] = "multipart/form-data; boundary=b2"

\* the number of entries of the log equal to step
Count(log, step) == Cardinality({i \in 1..Len(log) : log[i] = step})

\* C18: a multipart call one of whose files cannot be opened returns a nil
\* result and the open error, dispatches nothing, and has closed every file
\* it had opened
MissingFileFailsWhole ==
    (/\ pc # "idle"
     /\ call.entry = "POSTMultiPartFormData"
     /\ call.config.HttpClient # "nil"
     /\ \E i \in 1..Len(call.files) : ~call.files[i].exists) =>
        /\ pc = "done"
        /\ call.result.isNil
        /\ call.err.kind = "failed to open file"
        /\ ~Dispatched
        /\ Count(call.log, "file.Close") = Count(call.log, "os.Open") - 1

MissingFileFailsWholeWitness ==
    /\ pc = "done"
    /\ call.entry = "POSTMultiPartFormData"
    /\ Len(call.files) = 2
    /\ call.files[1].exists
    /\ ~call.files[2].exists
    /\ Count(call.log, "file.Close") = 1
    /\ call.err.kind = "failed to open file"

\* C19: the body of a dispatched multipart call holds one file part per file,
\* under the file's field name and with the file's content, one field per
\* entry of MultipartFormParams with the entry's value, and nothing else
OnePartPerEntry ==
    (Dispatched /\ call.entry = "POSTMultiPartFormData") =>
        LET parts == call.req.Body.data
            params == call.config.MultipartFormParams
        IN  /\ \A i \in 1..Len(call.files) :
                  Cardinality({j \in 1..Len(parts) :
                                  /\ parts[j].kind = "file"
                                  /\ parts[j].name = call.files[i].field
                                  /\ parts[j].content = call.files[i].content}) = 1
            /\ \A k \in DOMAIN params :
                  Cardinality({j \in 1..Len(parts) :
                                  /\ parts[j].kind = "field"
                                  /\ parts[j].name = k
                                  /\ parts[j].content = params[k]}) = 1
            /\ Len(parts) = Len(call.files) + Cardinality(DOMAIN params)

OnePartPerEntryWitness ==
    /\ pc = "wait"
    /\ call.entry = "POSTMultiPartFormData"
    /\ Len(call.files) = 2
    /\ call.files[1].content = "test content"
    /\ DOMAIN call.config.MultipartFormParams = {"name", "age"}
    /\ Len(call.req.Body.data) = 4
    /\ call.req.Body.data[1].content = "test content"

\* the keys a sequence of insertions gives a value to
KeysOf(ins) == {ins[i][1] : i \in 1..Len(ins)}

\* C20: the query string of a dispatched GET with query parameters is their
\* encoded form ordered by name, in place of the query string of the URL
\* argument and whatever the order of insertion; without query parameters the
\* URL goes out as it was given
QueryIsSortedEncoding ==
    /\ (Dispatched /\ call.entry = "GET") =>
          IF DOMAIN call.config.QueryParams # {}
          THEN /\ call.req.URL[1] = call.url[1]
               /\ Len(call.req.URL) >= 2
               /\ call.req.URL[2] = "?"
               /\ IsEncodingOf(SubSeq(call.req.URL, 3, Len(call.req.URL)),
                               call.config.QueryParams)
          ELSE call.req.URL = call.url
    /\ \A i1, i2 \in Insertions :
          (/\ Len(i1) = Len(i2)
           /\ Cardinality(KeysOf(i1)) = Len(i1)
           /\ {i1[i] : i \in 1..Len(i1)} = {i2[i] : i \in 1..Len(i2)}) =>
              Encode(ValuesOf(i1, EmptyMap)) = Encode(ValuesOf(i2, EmptyMap))

QueryIsSortedEncodingWitness ==
    /\ pc = "wait"
    /\ call.entry = "GET"
    /\ call.url = <<"http://svc/resource", "?", "x", "=", "1">>
    /\ call.config.QueryParams =
          ValuesOf(<<<<"name", "John Doe">>, <<"age", "30">>>>, EmptyMap)
    /\ call.req.URL = <<"http://svc/resource", "?",
                        "age", "=", "30", "&", "name", "=", "John+Doe">>

\* C22: a call entered with a nil context has its request built on a
\* background context, with the deadline and the span a background context
\* gets, and never on a nil context
NilContextIsBackground ==
    (/\ pc \in {"wait", "done", "exited"}
     /\ call.parent.isNil) =>
        /\ ~call.ctx.isNil
        /\ call.ctx.hasDeadline = (call.config.Timeout # 0)
        /\ call.ctx.hasDeadline => call.ctx.deadline = call.start + call.config.Timeout
        /\ call.ctx.span = handle.TraceEnabled
        /\ call.ctx = setupContext(Background, call.config, handle, call.start).ctx
        /\ Dispatched => call.req.ctx = call.ctx

NilContextIsBackgroundWitness ==
    /\ pc = "wait"
    /\ call.parent.isNil
    /\ call.config.Timeout = 0
    /\ ~call.req.ctx.isNil
    /\ ~call.req.ctx.hasDeadline
    /\ call.req.ctx.span

\* C27: the cleanup of a returned call ended the span first and cancelled
\* second when tracing is enabled, only cancelled when it is not, with a no-op
\* cancel when no timeout is configured; invoking it again changes nothing
CleanupOrder ==
    pc = "done" =>
        LET cancel == IF call.config.Timeout # 0 THEN "cancel" ELSE "noop"
            n == Len(call.log)
        IN  /\ IF handle.TraceEnabled
               THEN /\ call.cleanup = <<"span.End", cancel>>
                    /\ n >= 2 /\ call.log[n - 1] = "span.End" /\ call.log[n] = cancel
                    /\ Count(call.log, "span.End") = 1
               ELSE /\ call.cleanup = <<cancel>>
                    /\ n >= 1 /\ call.log[n] = cancel
                    /\ Count(call.log, "span.End") = 0
            /\ call.res.spanEnded = handle.TraceEnabled
            /\ call.res.cancelled = (call.config.Timeout # 0)
            /\ \A t \in now..(MaxTime + 1) :
                  RunCleanup(call.res, call.cleanup, t) = call.res

CleanupOrderWitness ==
    /\ pc = "done"
    /\ handle.TraceEnabled
    /\ call.config.Timeout # 0
    /\ call.cleanup = <<"span.End", "cancel">>
    /\ call.res.spanEnded
    /\ call.res.cancelled
    /\ now < MaxTime

\* the calls handleResponse makes on the body of a response
BodySteps == {"Decode", "ReadAll", "Body.Close"}

\* C28: a call to which the client returned a response closed the body
\* exactly once, after reading it and before its cleanup, on every path; a
\* call to which the client returned an error made no call on a body
BodyReleasedOnce ==
    pc = "done" =>
        IF call.responded
        THEN /\ Count(call.log, "Body.Close") = 1
             /\ \A i, j \in 1..Len(call.log) :
                   /\ (call.log[i] \in {"Decode", "ReadAll"} /\ call.log[j] = "Body.Close")
                         => i < j
                   /\ (call.log[i] = "Body.Close"
                         /\ call.log[j] \in {"span.End", "cancel", "noop"}) => i < j
        ELSE \A i \in 1..Len(call.log) : call.log[i] \notin BodySteps

BodyReleasedOnceWitness ==
    /\ pc = "done"
    /\ call.responded
    /\ call.config.CircuitBreaker # "nil"
    /\ call.resp.StatusCode = 503
    /\ Count(call.log, "ReadAll") = 1
    /\ Count(call.log, "Body.Close") = 1

\* C29: no call changes the header collection the caller passed
CallerHeadersUnchanged == [][callerHeaders' = callerHeaders]_vars

\* C30: a call the closed breaker admitted returns the pair the direct path,
\* handleResponse on what client.Do returned, gives for the same outcome
BreakerPathEqualsDirect ==
    (pc = "done" /\ call.config.CircuitBreaker # "nil" /\ call.cbSeen = "closed") =>
        /\ call.result = handleResponse(call.resp, call.doErr).result
        /\ call.err = handleResponse(call.resp, call.doErr).err

BreakerPathEqualsDirectWitness ==
    /\ pc = "done"
    /\ call.cbSeen = "closed"
    /\ call.responded
    /\ call.resp.StatusCode = 200
    /\ call.resp.Body.data = <<"oops">>
    /\ call.err.kind = "failed to decode response"

\* the first place of a step in a log of steps, 0 when it is not there
Pos(log, step) ==
    IF \E i \in 1..Len(log) : log[i] = step
    THEN CHOOSE i \in 1..Len(log) :
            log[i] = step /\ \A j \in 1..(i - 1) : log[j] # step
    ELSE 0

\* C21: when the downstream handler returns an error, the error reaches the
\* framework's error handler and the middleware does not report success: it
\* returns that error to whatever wraps it
HandlerErrorNotSwallowed ==
    (inbound.at = "done" /\ inbound.handlerErr # "")
        => /\ inbound.errors = <<inbound.handlerErr>>
           /\ inbound.returned = inbound.handlerErr

\* C23: no step of any of the concurrent calls changes the shared handle, and
\* no two calls access one field of it with a write among the two accesses
HandleReadOnly ==
    [][/\ handle' = handle
       /\ \A i, j \in 1..Len(inflight'.accesses) :
             LET a == inflight'.accesses[i]
                 b == inflight'.accesses[j]
             IN  (a.proc # b.proc /\ a.field = b.field)
                    => (a.kind = "read" /\ b.kind = "read")]_vars

HandleReadOnlyWitness ==
    /\ handle.TraceEnabled
    /\ \A p \in Procs : inflight.at[p] = "done"
    /\ \E i, j \in 1..Len(inflight.accesses) :
          /\ inflight.accesses[i].proc # inflight.accesses[j].proc
          /\ inflight.accesses[i].field = "Client"
          /\ inflight.accesses[j].field = "Client"

\* C24: when the downstream handler returns an error, the error attribute a
\* recording span ends up with is the message of that error
ErrorAttributeIsErrorMessage ==
    (inbound.at = "done" /\ inbound.handlerErr # "" /\ inbound.recording)
        => /\ "error.error" \in DOMAIN inbound.attrs
           /\ inbound.attrs["error.error"] = inbound.handlerErr

\* C25: the middleware extracts, starts the span, injects and replaces the
\* request's context, in this order, before it invokes the downstream handler,
\* which sees the span-bound context; the span is ended once, after the
\* handler has returned, on success and on failure alike
MiddlewareStepsInOrder ==
    LET l == inbound.log IN
    /\ Pos(l, "Start") > 0 => (0 < Pos(l, "Extract") /\ Pos(l, "Extract") < Pos(l, "Start"))
    /\ Pos(l, "Inject") > 0 => (0 < Pos(l, "Start") /\ Pos(l, "Start") < Pos(l, "Inject"))
    /\ Pos(l, "SetRequest") > 0
          => (0 < Pos(l, "Inject") /\ Pos(l, "Inject") < Pos(l, "SetRequest"))
    /\ Pos(l, "next") > 0
          => /\ 0 < Pos(l, "SetRequest")
             /\ Pos(l, "SetRequest") < Pos(l, "next")
             /\ Count(l, "next") = 1
             /\ inbound.seenCtxSpan = inbound.span
    /\ inbound.ends = Count(l, "span.End")
    /\ inbound.ends <= 1
    /\ inbound.ends = 1 => (0 < Pos(l, "next") /\ Pos(l, "next") < Pos(l, "span.End"))
    /\ inbound.at = "done" => inbound.ends = 1

MiddlewareStepsInOrderWitness ==
    /\ inbound.at = "done"
    /\ inbound.initialised
    /\ inbound.handlerErr = "boom"
    /\ inbound.ends = 1
    /\ inbound.seenCtxSpan.SpanID = "s2"

\* C26: once InitTracer has installed the provider and the propagator, the
\* traceparent header the downstream handler sees names the span the
\* middleware started, a span other than the inbound parent, and its trace id
\* is the inbound one whenever the inbound header was a valid trace context
InjectedCarriesNewSpan ==
    (inbound.initialised /\ Pos(inbound.log, "next") > 0)
        => /\ "Traceparent" \in DOMAIN inbound.seenHeader
           /\ LET seen == inbound.seenHeader["Traceparent"][1] IN
               /\ Len(inbound.seenHeader["Traceparent"]) = 1
               /\ Len(seen) = 4
               /\ seen[2] = inbound.span.TraceID
               /\ seen[3] = inbound.span.SpanID
               /\ seen[3] \in SpanIDs \ {"s1"}
               /\ ("Traceparent" \in DOMAIN inbound.inboundHeader
                      /\ ParseTraceparent(inbound.inboundHeader["Traceparent"][1]).ok)
                     => seen[2] = inbound.inboundHeader["Traceparent"][1][2]

InjectedCarriesNewSpanWitness ==
    /\ inbound.initialised
    /\ inbound.at = "return"
    /\ inbound.inboundHeader = [k \in {"Traceparent"} |-> <<<<"00", "t1", "s1", "00">>>>]
    /\ inbound.seenHeader = [k \in {"Traceparent"} |-> <<<<"00", "t1", "s3", "00">>>>]

====
